---- MODULE Spec2Model ----
(***************************************************************************)
(* Model of the json! procedural macro of inline-json (src/src/lib.rs).     *)
(*                                                                         *)
(* The macro is a pure function from a token tree to a token stream.  The  *)
(* token tree is modelled as nested sequences of TokenTree records, the     *)
(* emitted token stream as a tree of builder calls (a "fragment").  The     *)
(* state machine draws one macro input in Init and the action Json expands *)
(* it.                                                                     *)
(***************************************************************************)
EXTENDS Naturals, Sequences, FiniteSets

VARIABLES
    tokens,     \* the TokenStream handed to json()
    pc,         \* "call" before the expansion, "done" after it
    output      \* the TokenStream json() returned (a fragment), once done

vars == <<tokens, pc, output>>

----------------------------------------------------------------------------
(* proc_macro::TokenTree.  Leaves carry a character, groups a delimiter and *)
(* a nested stream.  All records have the same fields so that any two      *)
(* tokens can be compared.                                                 *)

Ident(c) == [kind |-> "Ident", ch |-> c, delimiter |-> "NA", stream |-> <<>>]
Punct(c) == [kind |-> "Punct", ch |-> c, delimiter |-> "NA", stream |-> <<>>]
Group(d, s) == [kind |-> "Group", ch |-> "NA", delimiter |-> d, stream |-> s]

a == Ident("a")
T == Ident("T")
comma == Punct(",")
colon == Punct(":")

IsGroup(tt) == tt.kind = "Group"

(* The emitted token streams (quote! blocks), as trees.  items is a        *)
(* sequence of [key, value] records: for an object the key tokens and the  *)
(* value fragment of each insert call, for an array the value fragment of  *)
(* each push_back call (key empty).                                        *)

NoTokens == <<>>

ObjectFragment(ty, entries) ==
    [node |-> "object", ty |-> ty, expr |-> NoTokens, items |-> entries]

ArrayFragment(ty, values) ==
    [node |-> "array", ty |-> ty, expr |-> NoTokens, items |-> values]

IntoFragment(ty, expr) ==
    [node |-> "into", ty |-> ty, expr |-> expr, items |-> <<>>]

\* what parse_macro_input! returns from the enclosing function on a parse error
CompileError ==
    [node |-> "compile_error", ty |-> NoTokens, expr |-> NoTokens, items |-> <<>>]

----------------------------------------------------------------------------
(* fn is_not_punct(ch): false exactly for a Punct token equal to ch.        *)

is_not_punct(ch, tt) ==
    IF tt.kind = "Punct" THEN tt.ch # ch ELSE TRUE

(* iter.by_ref().take_while(is_not_punct(ch)), drained: the tokens before   *)
(* the first token failing the predicate, and what is left in the          *)
(* underlying iterator (the failing token itself is consumed and dropped). *)

RECURSIVE FirstPunct(_, _, _)
FirstPunct(s, ch, i) ==
    IF i > Len(s) THEN 0
    ELSE IF ~is_not_punct(ch, s[i]) THEN i
    ELSE FirstPunct(s, ch, i + 1)

TakeWhile(s, ch) ==
    LET i == FirstPunct(s, ch, 1) IN
    IF i = 0 THEN [taken |-> s, rest |-> <<>>]
    ELSE [taken |-> SubSeq(s, 1, i - 1), rest |-> SubSeq(s, i + 1, Len(s))]

----------------------------------------------------------------------------
(* parse_macro_input!(.. as Expr) and parse_macro_input!(ty): syn's parsers, *)
(* restricted to the tokens of this model (identifiers, `,`, `:` and        *)
(* groups; no operators, so a leaf after the first token never continues   *)
(* an expression).  An expression is a primary (a path, a parenthesised or *)
(* array expression, a block, a None-delimited group holding an            *)
(* expression) followed by calls, indexings or, after a                    *)
(* path, one struct body; syn 2 has no type ascription, so a top-level `:` *)
(* never parses.  The input must be consumed whole.                        *)

RECURSIVE ParsesAsExpr(_)
RECURSIVE ExprList(_)
RECURSIVE FieldList(_)

ExprList(s) ==
    IF s = <<>> THEN TRUE
    ELSE LET tw == TakeWhile(s, ",") IN
         ParsesAsExpr(tw.taken) /\ ExprList(tw.rest)

FieldList(s) ==
    IF s = <<>> THEN TRUE
    ELSE LET tw == TakeWhile(s, ",")
             f == tw.taken
         IN /\ \/ Len(f) = 1 /\ f[1].kind = "Ident"
               \/ /\ Len(f) >= 3
                  /\ f[1].kind = "Ident"
                  /\ f[2] = colon
                  /\ ParsesAsExpr(SubSeq(f, 3, Len(f)))
            /\ FieldList(tw.rest)

ParsesAsExpr(s) ==
    /\ Len(s) > 0
    /\ \A i \in 1..Len(s) :
          LET tt == s[i] IN
          IF i = 1
          THEN CASE tt.kind = "Ident" -> TRUE
                 [] tt.kind = "Punct" -> FALSE
                 [] tt.delimiter = "Brace" ->
                        tt.stream = <<>> \/ ParsesAsExpr(tt.stream)
                 [] tt.delimiter = "None" -> ParsesAsExpr(tt.stream)
                 [] OTHER -> ExprList(tt.stream)
          ELSE CASE ~IsGroup(tt) -> FALSE
                 [] tt.delimiter = "Parenthesis" -> ExprList(tt.stream)
                 [] tt.delimiter = "Bracket" -> ParsesAsExpr(tt.stream)
                 [] tt.delimiter = "Brace" ->
                        i = 2 /\ s[1].kind = "Ident" /\ FieldList(tt.stream)
                 [] OTHER -> FALSE

ParsesAsType(s) == Len(s) = 1 /\ s[1].kind = "Ident"

----------------------------------------------------------------------------
(* fn json_impl(ty, iter).  The argument iterator is either the rest of    *)
(* the macro input (pred = NoPred) or                                      *)
(* iter.by_ref().take_while(is_not_punct(pred)) over the tokens src of the  *)
(* caller's iterator.  The iterator is lazy: json_impl returns the         *)
(* fragment together with what it left unconsumed in the caller's          *)
(* iterator.                                                               *)

NoPred == "none"
None == [kind |-> "None", ch |-> "NA", delimiter |-> "NA", stream |-> <<>>]

TakeWhileIter(src, ch) == [src |-> src, pred |-> ch]
PlainIter(src) == [src |-> src, pred |-> NoPred]

\* iter.peek(): the first item the iterator yields, None when it yields nothing
Peek(iter) ==
    IF iter.src = <<>> THEN None
    ELSE IF iter.pred # NoPred /\ ~is_not_punct(iter.pred, iter.src[1]) THEN None
    ELSE iter.src[1]

\* iter.collect(): every item the iterator yields, and the caller's leftover
Collect(iter) ==
    IF iter.pred = NoPred THEN [taken |-> iter.src, rest |-> <<>>]
    ELSE TakeWhile(iter.src, iter.pred)

\* mutant of Arm: every group that is not a brace group is taken as an array
ArmAnyGroup(first) ==
    IF IsGroup(first) /\ first.delimiter = "Brace" THEN "Brace"
    ELSE IF IsGroup(first) THEN "Bracket"
    ELSE "Expr"

\* `if let Some(TokenTree::Group(group)) = iter.peek()` and the match on
\* group.delimiter(): which arm compiles the input
Arm(first) ==
    IF IsGroup(first) /\ first.delimiter = "Brace" THEN "Brace"
    ELSE IF IsGroup(first) /\ first.delimiter = "Bracket" THEN "Bracket"
    ELSE "Expr"

\* mutant of ScalarArm: the tokens are quoted without being parsed
ScalarArmUnparsed(ty, expr) == IntoFragment(ty, expr)

\* `let expr = parse_macro_input!(expr as Expr)` and the final quote!: a token
\* sequence that does not parse makes json_impl return the compile error
ScalarArm(ty, expr) ==
    IF ParsesAsExpr(expr) THEN IntoFragment(ty, expr) ELSE CompileError

RECURSIVE json_impl(_, _)
RECURSIVE BraceLoop(_, _, _)
RECURSIVE BracketLoop(_, _, _)

\* the `while iter.peek().is_some()` loop of the Brace arm and its quote!
BraceLoop(ty, iter, entries) ==
    IF iter = <<>> THEN ObjectFragment(ty, entries)
    ELSE LET key == TakeWhile(iter, ":") IN
         IF ~ParsesAsExpr(key.taken) THEN CompileError
         ELSE LET value == json_impl(ty, TakeWhileIter(key.rest, ",")) IN
              BraceLoop(ty, value.rest,
                        Append(entries, [key |-> key.taken, value |-> value.out]))

\* the `while iter.peek().is_some()` loop of the Bracket arm and its quote!
BracketLoop(ty, iter, values) ==
    IF iter = <<>> THEN ArrayFragment(ty, values)
    ELSE LET value == json_impl(ty, TakeWhileIter(iter, ",")) IN
         BracketLoop(ty, value.rest,
                     Append(values, [key |-> NoTokens, value |-> value.out]))

json_impl(ty, iter) ==
    LET first == Peek(iter)
        arm == Arm(first)
    IN  IF arm = "Brace"
        THEN [out |-> BraceLoop(ty, first.stream, <<>>), rest |-> Tail(iter.src)]
        ELSE IF arm = "Bracket"
        THEN [out |-> BracketLoop(ty, first.stream, <<>>), rest |-> Tail(iter.src)]
        ELSE LET expr == Collect(iter) IN
             [out |-> ScalarArm(ty, expr.taken), rest |-> expr.rest]

\* pub fn json(json)
json(stream) ==
    LET ty == TakeWhile(stream, ",") IN
    IF ~ParsesAsType(ty.taken) THEN CompileError
    ELSE json_impl(ty.taken, PlainIter(ty.rest)).out

----------------------------------------------------------------------------
(* The macro inputs explored.                                              *)
(*                                                                         *)
(* Spec: any literal, well formed or not.  A body is any sequence of at    *)
(* most MaxLen tokens, each a leaf or one of four child groups (a bracket  *)
(* group with an inner `,`, a brace group with an inner `:`, a             *)
(* parenthesised and a None-delimited group); a literal is a body, bare or *)
(* enclosed in braces or brackets.  A few inputs have a missing or         *)
(* malformed target type.                                                  *)
(*                                                                         *)
(* SpecWellFormed: the well-formed literals nested at most MaxDepth deep   *)
(* with at most MaxEntries entries per object or array, with or without a  *)
(* trailing `,` in the outermost body.                                     *)

MaxLen == 5
MaxEntries == 2
MaxDepth == 3

SeqsUpTo(S, n) == UNION {[1..k -> S] : k \in 0..n}

Leaves == {a, comma, colon}
Children ==
    { Group("Bracket", <<a, comma, a>>),
      Group("Brace", <<a, colon, a>>),
      Group("Parenthesis", <<a>>),
      Group("None", <<a>>) }
Alphabet == Leaves \cup Children

RECURSIVE Join(_, _)
Join(segs, sep) ==
    IF segs = <<>> THEN <<>>
    ELSE IF Len(segs) = 1 THEN segs[1]
    ELSE segs[1] \o <<sep>> \o Join(Tail(segs), sep)

Entry(value) == <<a, colon>> \o value

ArrayOf(vs) == <<Group("Bracket", Join(vs, comma))>>
ObjectOf(vs) == <<Group("Brace", Join([i \in 1..Len(vs) |-> Entry(vs[i])], comma))>>

RECURSIVE WellFormedLiterals(_)
WellFormedLiterals(d) ==
    IF d = 0 THEN {<<a>>}
    ELSE LET sub == WellFormedLiterals(d - 1)
             lists == SeqsUpTo(sub, MaxEntries)
         IN sub \cup {ArrayOf(vs) : vs \in lists} \cup {ObjectOf(vs) : vs \in lists}

WithTrailingComma(lit) ==
    <<Group(lit[1].delimiter, Append(lit[1].stream, comma))>>

NoOutput == [node |-> "none", ty |-> NoTokens, expr |-> NoTokens, items |-> <<>>]

Init ==
    /\ pc = "call"
    /\ output = NoOutput
    /\ \E k \in 0..MaxLen : \E b \in [1..k -> Alphabet] :
          \/ tokens = <<T, comma>> \o b
          \/ \E d \in {"Brace", "Bracket"} : tokens = <<T, comma, Group(d, b)>>
          \/ /\ k <= 1
             /\ \E ty \in {<<>>, <<comma>>, <<T, T, comma>>} : tokens = ty \o b

InitWellFormed ==
    /\ pc = "call"
    /\ output = NoOutput
    /\ \E k \in 0..MaxEntries : \E vs \in [1..k -> WellFormedLiterals(MaxDepth - 1)] :
          \E lit \in {ArrayOf(vs), ObjectOf(vs)} :
             \/ tokens = <<T, comma>> \o lit
             \/ k > 0 /\ tokens = <<T, comma>> \o WithTrailingComma(lit)
             \/ k = 1 /\ tokens = <<T, comma>> \o vs[1]

\* the compiler invokes the macro on the tokens between its parentheses
Json ==
    /\ pc = "call"
    /\ output' = json(tokens)
    /\ pc' = "done"
    /\ UNCHANGED tokens

Next == Json

Spec == Init /\ [][Next]_vars

SpecWellFormed == InitWellFormed /\ [][Next]_vars

----------------------------------------------------------------------------
(* Reference notions of the specification, used to state the claims.       *)

TypeOk == Len(tokens) >= 2 /\ tokens[1] = T /\ tokens[2] = comma
Ty == <<T>>
Lit == SubSeq(tokens, 3, Len(tokens))

\* index of the first top-level separator ch in s, 0 when there is none
SeparatorAt(s, ch) ==
    IF \E i \in 1..Len(s) : s[i] = Punct(ch)
    THEN CHOOSE i \in 1..Len(s) :
            s[i] = Punct(ch) /\ \A j \in 1..(i - 1) : s[j] # Punct(ch)
    ELSE 0

\* the Splitter: the segments between top-level separators; no segment for
\* an empty input nor after a trailing separator
RECURSIVE Split(_, _)
Split(s, ch) ==
    IF s = <<>> THEN <<>>
    ELSE LET i == SeparatorAt(s, ch) IN
         IF i = 0 THEN <<s>>
         ELSE <<SubSeq(s, 1, i - 1)>> \o Split(SubSeq(s, i + 1, Len(s)), ch)

HasColon(e) == SeparatorAt(e, ":") > 0
KeyOf(e) == SubSeq(e, 1, SeparatorAt(e, ":") - 1)
ValueOf(e) == SubSeq(e, SeparatorAt(e, ":") + 1, Len(e))

StartsWith(s, d) == s # <<>> /\ IsGroup(s[1]) /\ s[1].delimiter = d
IsArrayLiteral(s) == Len(s) = 1 /\ StartsWith(s, "Bracket")
IsObjectLiteral(s) == Len(s) = 1 /\ StartsWith(s, "Brace")
IsScalar(s) ==
    s # <<>> /\ ~StartsWith(s, "Brace") /\ ~StartsWith(s, "Bracket") /\ ParsesAsExpr(s)

\* a body does not end in a separator (trailing separators are C9's subject)
NoTrailing(body) == body = <<>> \/ body[Len(body)] # comma

\* the literals of the grammar: a scalar expression, or a bracket group of
\* well-formed values separated by `,`, or a brace group of `key: value`
\* entries separated by `,`
RECURSIVE WellFormed(_)
WellFormed(s) ==
    \/ IsScalar(s)
    \/ /\ IsArrayLiteral(s)
       /\ NoTrailing(s[1].stream)
       /\ LET elems == Split(s[1].stream, ",") IN
          \A i \in 1..Len(elems) : WellFormed(elems[i])
    \/ /\ IsObjectLiteral(s)
       /\ NoTrailing(s[1].stream)
       /\ LET entries == Split(s[1].stream, ",") IN
          \A i \in 1..Len(entries) :
             /\ HasColon(entries[i])
             /\ ParsesAsExpr(KeyOf(entries[i]))
             /\ WellFormed(ValueOf(entries[i]))

\* the node a well-formed value compiles to
NodeOf(s) ==
    IF StartsWith(s, "Brace") THEN "object"
    ELSE IF StartsWith(s, "Bracket") THEN "array"
    ELSE "into"

\* the builder-call tree of a well-formed literal
RECURSIVE Expected(_, _)
Expected(ty, s) ==
    IF IsObjectLiteral(s)
    THEN LET entries == Split(s[1].stream, ",") IN
         ObjectFragment(ty, [i \in 1..Len(entries) |->
             [key |-> KeyOf(entries[i]), value |-> Expected(ty, ValueOf(entries[i]))]])
    ELSE IF IsArrayLiteral(s)
    THEN LET elems == Split(s[1].stream, ",") IN
         ArrayFragment(ty, [i \in 1..Len(elems) |->
             [key |-> NoTokens, value |-> Expected(ty, elems[i])]])
    ELSE IntoFragment(ty, s)

\* the fragment holds a compile error somewhere
RECURSIVE HasError(_)
HasError(frag) ==
    \/ frag.node = "compile_error"
    \/ \E i \in 1..Len(frag.items) : HasError(frag.items[i].value)

\* the identifier tokens of a token stream, nested ones included
RECURSIVE IdentsIn(_)
IdentsIn(s) ==
    IF s = <<>> THEN 0
    ELSE (IF s[1].kind = "Ident" THEN 1 ELSE 0) + IdentsIn(s[1].stream) + IdentsIn(Tail(s))

\* the identifier tokens a fragment carries in its keys and conversions
RECURSIVE IdentsOf(_)
RECURSIVE IdentsOfItems(_)
IdentsOfItems(items) ==
    IF items = <<>> THEN 0
    ELSE IdentsIn(items[1].key) + IdentsOf(items[1].value) + IdentsOfItems(Tail(items))
IdentsOf(frag) == IdentsIn(frag.expr) + IdentsOfItems(frag.items)

----------------------------------------------------------------------------
(* C1: a well-formed array literal with N elements compiles to an array    *)
(* fragment with exactly N push_back calls, the i-th carrying the          *)
(* compilation of the i-th element.                                        *)
C1_ArrayPushBacks ==
    (pc = "done" /\ TypeOk /\ IsArrayLiteral(Lit) /\ WellFormed(Lit)) =>
        LET elems == Split(Lit[1].stream, ",") IN
        /\ output.node = "array"
        /\ Len(output.items) = Len(elems)
        /\ \A i \in 1..Len(elems) :
              output.items[i].value = json_impl(Ty, PlainIter(elems[i])).out

(* C2: a well-formed object literal with N entries compiles to an object   *)
(* fragment with exactly N insert calls, the i-th with the i-th entry's    *)
(* key and the compilation of the i-th entry's value.                      *)
C2_ObjectInserts ==
    (pc = "done" /\ TypeOk /\ IsObjectLiteral(Lit) /\ WellFormed(Lit)) =>
        LET entries == Split(Lit[1].stream, ",") IN
        /\ output.node = "object"
        /\ Len(output.items) = Len(entries)
        /\ \A i \in 1..Len(entries) :
              /\ output.items[i].key = KeyOf(entries[i])
              /\ output.items[i].value =
                    json_impl(Ty, PlainIter(ValueOf(entries[i]))).out

(* C3: the fragment of a well-formed literal is the literal's own tree:    *)
(* objects, arrays and conversions nested as in the source, in order.      *)
C3_TreeIsomorphic ==
    (pc = "done" /\ TypeOk /\ WellFormed(Lit)) => output = Expected(Ty, Lit)

(* C4: an array body is cut exactly at its top-level `,` tokens: the       *)
(* number of values compiled is the number of segments of the Splitter,    *)
(* and a segment compiled as a conversion is that segment.  (Bodies ending *)
(* in `,` are the subject of C9.)                                          *)
C4_SegmentsAtSeparators ==
    (pc = "done" /\ TypeOk /\ IsArrayLiteral(Lit) /\ NoTrailing(Lit[1].stream)) =>
        LET segs == Split(Lit[1].stream, ",") IN
        /\ Len(output.items) = Len(segs)
        /\ \A i \in 1..Len(segs) :
              output.items[i].value.node = "into" =>
                  output.items[i].value.expr = segs[i]

(* C5, as claimed: a literal starting with a bracket group is never an     *)
(* object, one starting with a brace group never an array, and any other   *)
(* non-empty token sequence compiles to exactly one conversion call.       *)
C5_ClassificationAsClaimed ==
    (pc = "done" /\ TypeOk /\ Lit # <<>>) =>
        CASE StartsWith(Lit, "Bracket") -> output.node # "object"
          [] StartsWith(Lit, "Brace") -> output.node # "array"
          [] OTHER -> output.node = "into"

(* C5, amended: a literal starting with a bracket group compiles to an     *)
(* array, one starting with a brace group to an object or to the compile   *)
(* error, and any other non-empty token sequence to exactly one conversion *)
(* of the whole sequence when it parses as an expression and to the        *)
(* compile error alone when it does not (never to a builder call).         *)
C5_Classification ==
    (pc = "done" /\ TypeOk /\ Lit # <<>>) =>
        CASE StartsWith(Lit, "Bracket") -> output.node = "array"
          [] StartsWith(Lit, "Brace") -> output.node \in {"object", "compile_error"}
          [] OTHER -> output = (IF ParsesAsExpr(Lit)
                                THEN IntoFragment(Ty, Lit)
                                ELSE CompileError)

\* a bracket group holding a brace group, compiled as an array of an object
C5_Witness ==
    /\ pc = "done" /\ TypeOk
    /\ StartsWith(Lit, "Bracket")
    /\ StartsWith(Lit[1].stream, "Brace")
    /\ output.node = "array"
    /\ Len(output.items) > 0
    /\ output.items[1].value.node = "object"

(* C6: in an object whose entries all have a top-level `:` and a key that  *)
(* parses, each entry is cut once, at its first top-level `:`: the key of  *)
(* its insert call is the tokens before it, and the value compiled is all  *)
(* the tokens after it, a later `:` included.                              *)
EntriesHaveKeys(body) ==
    /\ NoTrailing(body)
    /\ LET entries == Split(body, ",") IN
       \A i \in 1..Len(entries) :
          HasColon(entries[i]) /\ ParsesAsExpr(KeyOf(entries[i]))

\* the tokens a fragment was compiled from, when it is a conversion
CompiledFrom(frag, s) == frag.node = "into" => frag.expr = s

C6_KeyValueSplit ==
    (pc = "done" /\ TypeOk /\ IsObjectLiteral(Lit) /\ EntriesHaveKeys(Lit[1].stream)) =>
        LET entries == Split(Lit[1].stream, ",") IN
        /\ output.node = "object"
        /\ Len(output.items) = Len(entries)
        /\ \A i \in 1..Len(entries) :
              /\ output.items[i].key = KeyOf(entries[i])
              /\ output.items[i].value.node # "into"
                    => StartsWith(ValueOf(entries[i]), "Brace")
                       \/ StartsWith(ValueOf(entries[i]), "Bracket")
                       \/ ~ParsesAsExpr(ValueOf(entries[i]))
              /\ CompiledFrom(output.items[i].value, ValueOf(entries[i]))

(* C7: an object literal with an entry that has no top-level `:` compiles  *)
(* to a fragment holding a compile error, and no insert call of it lacks a *)
(* key.                                                                    *)
EntryWithoutColon ==
    /\ StartsWith(Lit, "Brace")
    /\ LET entries == Split(Lit[1].stream, ",") IN
       \E i \in 1..Len(entries) : ~HasColon(entries[i])

C7_MissingColonReported ==
    (pc = "done" /\ TypeOk /\ EntryWithoutColon) =>
        /\ HasError(output)
        /\ \A i \in 1..Len(output.items) : output.items[i].key # NoTokens

\* a colon-less entry after a well-formed one: the first entry is compiled,
\* the second carries the error
C7_Witness ==
    /\ pc = "done" /\ TypeOk /\ EntryWithoutColon
    /\ LET entries == Split(Lit[1].stream, ",") IN
       /\ Len(entries) = 2
       /\ HasColon(entries[1])
       /\ ~HasColon(entries[2])
    /\ output.node = "object"
    /\ Len(output.items) = 2
    /\ output.items[1].value.node = "into"
    /\ output.items[2].value = CompileError

(* C8: whenever a key or scalar segment fails to parse, the expansion is   *)
(* the compile error alone: a fragment that holds a compile error holds    *)
(* nothing else.                                                           *)
C8_ErrorAlone ==
    (pc = "done" /\ HasError(output)) => output = CompileError

(* C9: a trailing `,` after a well-formed, non-empty body changes nothing: *)
(* as many values or entries are compiled as without it.                   *)
C9_TrailingSeparator ==
    (pc = "done" /\ TypeOk /\ (IsArrayLiteral(Lit) \/ IsObjectLiteral(Lit))
        /\ Len(Lit[1].stream) >= 2
        /\ Lit[1].stream[Len(Lit[1].stream)] = comma
        /\ WellFormed(<<Group(Lit[1].delimiter,
                              SubSeq(Lit[1].stream, 1, Len(Lit[1].stream) - 1))>>)) =>
        LET body == SubSeq(Lit[1].stream, 1, Len(Lit[1].stream) - 1)
            plain == json(<<T, comma, Group(Lit[1].delimiter, body)>>)
        IN  /\ output.node = plain.node
            /\ Len(output.items) = Len(plain.items)

(* C10: a successful expansion drops no token: every identifier of the     *)
(* literal is in exactly one key or conversion of the fragment.            *)
C10_NoTokenDropped ==
    (pc = "done" /\ TypeOk /\ ~HasError(output)) => IdentsOf(output) = IdentsIn(Lit)

====
